---- MODULE Spec2Model ----
(***************************************************************************)
(* Model of the btree container (btree.h) and its iterator                 *)
(* (btree_iterator.h).  Nodes live in a heap `nodes` indexed by node       *)
(* identities (the addresses of the C++ node objects); Null is nullptr.    *)
(* All slot indices are 0-based as in the source; TLA+ sequences are       *)
(* 1-based, so values_[i] of the source is values_[i + 1] here.            *)
(***************************************************************************)
EXTENDS Integers, Sequences, FiniteSets, TLC

\* ------------------------------------------------------------------ bounds
MaxVal == 5          \* a client of one tree object inserts from 1..MaxVal
MaxTwo == 3          \* a client of two tree objects inserts from 1..MaxTwo
MaxM == 2            \* trees are constructed with maxNodeElems in 1..MaxM

Vals == 1..MaxVal
ValsTwo == 1..MaxTwo
Sizes == 1..MaxM
Trees == {"a", "b"}
Null == 0

\* Addresses.  operator new returns some address that is not in use; the
\* program only ever compares addresses for equality, so the model fixes
\* the choice by where the node is attached: a root gets the least unused
\* number of RootAddrs, the node attached at children_[i] of the node at
\* address p gets p * Base + i + 1.  Two tree objects hold at most two roots
\* and a copy assignment builds a third before it releases the old one.
RootAddrs == {1, 2, 3}
Base == MaxM + 2

VARIABLES
  nodes,          \* heap: node identity -> [parent_, index_, values_, children_]
  head,           \* head[t]: btree::head_ of tree object t (Null when empty)
  maxNodeElems,   \* maxNodeElems[t]: btree::maxNodeElems_, set by
                  \* btree(size_t maxNodeElems) when t is constructed
  ret,            \* value returned by the last call of insert
  op,             \* the last operation that was called, with its arguments
  elems,          \* history: the set of elements inserted into each tree
  copyOf          \* history: copyOf[t] is the tree t was last copied from

vars == <<nodes, head, maxNodeElems, ret, op, elems, copyOf>>

\* ------------------------------------------------------------- sequences
Range(s) == {s[i] : i \in 1..Len(s)}

Swap(s, i, j) == [s EXCEPT ![i] = s[j], ![j] = s[i]]

\* ------------------------------------------------------------------ heap
Allocated(h) == DOMAIN h

\* operator new for the node that becomes children_[index] of parent, or a
\* root when parent is Null
NewAddr(h, parent, index) ==
  IF parent = Null
  THEN CHOOSE n \in RootAddrs \ Allocated(h) :
         \A m \in RootAddrs \ Allocated(h) : n <= m
  ELSE parent * Base + index + 1

\* the nodes owned (transitively, through children_) by the node n of heap h
RECURSIVE Owned(_, _)
Owned(h, n) ==
  IF n = Null THEN {}
  ELSE {n} \cup UNION {Owned(h, c) : c \in Range(h[n].children_)}

\* ~unique_ptr<node>: releases n and everything it owns
Release(h, n) == [m \in Allocated(h) \ Owned(h, n) |-> h[m]]

\* the constructor dropping its index argument
node_elem_index0(parent, index, elem) ==
  [parent_ |-> parent, index_ |-> 0,
   values_ |-> <<elem>>, children_ |-> <<Null, Null>>]

\* node::node(node *parent, size_t index, size_t size, const T& elem)
node_elem(parent, index, elem) ==
  [parent_ |-> parent, index_ |-> index,
   values_ |-> <<elem>>, children_ |-> <<Null, Null>>]

\* ------------------------------------------------------------- iterators
Iter(cur, index) == [cur_ |-> cur, index_ |-> index]

\* operator== answering false for two null cursors
iter_eq_null_unequal(x, y) ==
  IF x.cur_ = Null /\ y.cur_ = Null THEN FALSE
  ELSE x.cur_ = y.cur_ /\ x.index_ = y.index_

\* operator== comparing the nodes and not the slots
iter_eq_node_only(x, y) ==
  IF x.cur_ = Null /\ y.cur_ = Null THEN TRUE
  ELSE x.cur_ = y.cur_

\* btree_iterator::operator==
iter_eq(x, y) ==
  IF x.cur_ = Null /\ y.cur_ = Null THEN TRUE
  ELSE x.cur_ = y.cur_ /\ x.index_ = y.index_

\* btree_iterator::operator* : [status, val]; values_.at throws
\* std::out_of_range, reading through a null cur_ is undefined
Deref(h, it) ==
  IF it.cur_ = Null THEN [status |-> "undefined", val |-> 0]
  ELSE IF it.index_ < Len(h[it.cur_].values_)
       THEN [status |-> "ok", val |-> h[it.cur_].values_[it.index_ + 1]]
       ELSE [status |-> "out_of_range", val |-> 0]

\* stepping into the child without the leftmost descent
Leftmost_none(h, n) == n

\* leftmost descent: for(cur = n; cur->children_.at(0); cur = ...at(0).get())
RECURSIVE Leftmost(_, _)
Leftmost(h, n) ==
  IF h[n].children_[1] = Null THEN n ELSE Leftmost(h, h[n].children_[1])

\* btree::begin
begin(h, hd) == IF hd # Null THEN Iter(Leftmost(h, hd), 0) ELSE Iter(Null, 0)

\* btree::end
end(h, hd) == IF hd # Null THEN Iter(hd, Len(h[hd].values_)) ELSE Iter(Null, 0)

\* btree::cbegin, the read-only cursor (a const_iterator over the same node)
cbegin(h, hd) == IF hd # Null THEN Iter(Leftmost(h, hd), 0) ELSE Iter(Null, 0)

\* btree::cend
cend(h, hd) == IF hd # Null THEN Iter(hd, Len(h[hd].values_)) ELSE Iter(Null, 0)

\* operator++ climbing with `if` in place of `while`
Ascend_once(h, it) ==
  IF it.index_ = Len(h[it.cur_].values_) /\ h[it.cur_].parent_ # Null
  THEN Iter(h[it.cur_].parent_, h[it.cur_].index_)
  ELSE it

\* the upward loop of operator++
RECURSIVE Ascend(_, _)
Ascend(h, it) ==
  IF it.index_ = Len(h[it.cur_].values_) /\ h[it.cur_].parent_ # Null
  THEN Ascend(h, Iter(h[it.cur_].parent_, h[it.cur_].index_))
  ELSE it

\* btree_iterator::operator++ : [status, it]
increment(h, it) ==
  IF it.cur_ = Null THEN [status |-> "undefined", it |-> it]
  ELSE IF it.index_ + 1 >= Len(h[it.cur_].children_)
       THEN [status |-> "out_of_range", it |-> it]
       ELSE LET ptr == h[it.cur_].children_[it.index_ + 2]
            IN IF ptr # Null
               THEN [status |-> "ok", it |-> Iter(Leftmost(h, ptr), 0)]
               ELSE [status |-> "ok",
                     it |-> Ascend(h, Iter(it.cur_, it.index_ + 1))]

\* operator-- stepping into the child without the descent loop
Rightmost_none(h, n) == n

\* rightmost descent of operator--:
\* for(cur_ = n; *cur_->children_.rbegin(); cur_ = ...rbegin()->get())
RECURSIVE Rightmost(_, _)
Rightmost(h, n) ==
  LET last == h[n].children_[Len(h[n].children_)]
  IN IF last = Null THEN n ELSE Rightmost(h, last)

\* the upward loop of operator-- and the index_-- after it: [status, it].
\* The loop reads cur_->index_ without testing cur_: once it has stepped
\* from the root to its null parent_ with index_ = 0 the read is undefined.
RECURSIVE Retreat(_, _)
Retreat(h, it) ==
  IF it.index_ = 0
  THEN IF it.cur_ = Null THEN [status |-> "undefined", it |-> it]
       ELSE Retreat(h, Iter(h[it.cur_].parent_, h[it.cur_].index_))
  ELSE [status |-> "ok", it |-> Iter(it.cur_, it.index_ - 1)]

\* operator-- landing on the first slot of the node it descends to
decrement_first(h, it) ==
  IF it.cur_ = Null THEN [status |-> "undefined", it |-> it]
  ELSE IF it.index_ >= Len(h[it.cur_].children_)
       THEN [status |-> "out_of_range", it |-> it]
       ELSE LET ptr == h[it.cur_].children_[it.index_ + 1]
            IN IF ptr # Null
               THEN [status |-> "ok", it |-> Iter(Rightmost(h, ptr), 0)]
               ELSE Retreat(h, it)

\* btree_iterator::operator-- : [status, it]
decrement(h, it) ==
  IF it.cur_ = Null THEN [status |-> "undefined", it |-> it]
  ELSE IF it.index_ >= Len(h[it.cur_].children_)
       THEN [status |-> "out_of_range", it |-> it]
       ELSE LET ptr == h[it.cur_].children_[it.index_ + 1]
            IN IF ptr # Null
               THEN LET n == Rightmost(h, ptr)
                    IN [status |-> "ok",
                        it |-> Iter(n, Len(h[n].values_) - 1)]
               ELSE Retreat(h, it)

\* std::reverse_iterator<iterator>, held as its underlying cursor `current`:
\* rbegin() wraps end(), rend() wraps begin()
rbegin(h, hd) == end(h, hd)
rend(h, hd) == begin(h, hd)

\* reverse_iterator::operator* : decrement a copy of `current`, dereference it
reverse_deref(h, current) ==
  LET d == decrement(h, current)
  IN IF d.status # "ok" THEN [status |-> d.status, val |-> 0]
     ELSE Deref(h, d.it)

\* reverse_iterator::operator++ : --current
reverse_increment(h, current) == decrement(h, current)

\* ----------------------------------------------------------------- btree
\* std::upper_bound in place of std::lower_bound
StdLowerBound_upper(values, elem) ==
  CHOOSE i \in 0..Len(values) :
    /\ \A j \in 1..i : ~(elem < values[j])
    /\ i < Len(values) => elem < values[i + 1]

\* std::lower_bound over a node's values_: the first slot whose value is
\* not less than elem
StdLowerBound(values, elem) ==
  CHOOSE i \in 0..Len(values) :
    /\ \A j \in 1..i : values[j] < elem
    /\ i < Len(values) => ~(values[i + 1] < elem)

\* lower_bound without the test for an exact match: it descends whenever
\* there is a child
RECURSIVE lower_bound_descend(_, _, _)
lower_bound_descend(h, cur, elem) ==
  LET values == h[cur].values_
      index == StdLowerBound(values, elem)
  IN IF h[cur].children_[index + 1] = Null
     THEN <<cur, index>>
     ELSE lower_bound_descend(h, h[cur].children_[index + 1], elem)

\* btree::lower_bound
RECURSIVE lower_bound(_, _, _)
lower_bound(h, cur, elem) ==
  LET values == h[cur].values_
      index == StdLowerBound(values, elem)
  IN IF h[cur].children_[index + 1] = Null
        \/ (index # Len(values) /\ values[index + 1] = elem)
     THEN <<cur, index>>
     ELSE lower_bound(h, h[cur].children_[index + 1], elem)

\* valid with the bound off by one
valid_short(h, pair) == pair[2] + 1 < Len(h[pair[1]].values_)

\* btree::valid
valid(h, pair) == pair[2] < Len(h[pair[1]].values_)

\* btree::find
find(h, hd, elem) ==
  IF hd = Null THEN end(h, hd)
  ELSE LET lower == lower_bound(h, hd, elem)
       IN IF valid(h, lower) /\ h[lower[1]].values_[lower[2] + 1] = elem
          THEN Iter(lower[1], lower[2])
          ELSE end(h, hd)

\* btree::find const
find_const(h, hd, elem) ==
  IF hd = Null THEN cend(h, hd)
  ELSE LET lower == lower_bound(h, hd, elem)
       IN IF valid(h, lower) /\ h[lower[1]].values_[lower[2] + 1] = elem
          THEN Iter(lower[1], lower[2])
          ELSE cend(h, hd)

\* the sinking loop with its comparison the wrong way round
RECURSIVE Sink_wrong(_, _)
Sink_wrong(values, k) ==
  LET n == Len(values)
      prev == n - k + 1
      cur == n - k
  IN IF k < n /\ values[cur] < values[prev]
     THEN Sink_wrong(Swap(values, prev, cur), k + 1)
     ELSE <<values, k>>

\* the loop of insert that sinks the pushed element: k is the distance of
\* the reverse iterator `it` from rbegin(); returns <<values, k>>
RECURSIVE Sink(_, _)
Sink(values, k) ==
  LET n == Len(values)
      prev == n - k + 1       \* 1-based position of *(it - 1)
      cur == n - k            \* 1-based position of *it
  IN IF k < n /\ values[prev] < values[cur]
     THEN Sink(Swap(values, prev, cur), k + 1)
     ELSE <<values, k>>

\* make_node resetting head_ whatever pointer it was asked to fill: the old
\* tree is released and the new node becomes the root
make_node_head(h, hd, parent, index, elem) ==
  LET h0 == Release(h, hd)
      new == NewAddr(h0, Null, 0)
      h1 == [n \in Allocated(h0) \cup {new} |->
               IF n = new THEN node_elem(Null, 0, elem) ELSE h0[n]]
  IN [nodes |-> h1, head |-> new, it |-> Iter(new, 0)]

\* make_node taking the unique_ptr by value: the new node is never linked
make_node_unlinked(h, hd, parent, index, elem) ==
  LET new == NewAddr(h, parent, index)
      h1 == [n \in Allocated(h) \cup {new} |->
               IF n = new THEN node_elem(parent, index, elem) ELSE h[n]]
  IN [nodes |-> h1, head |-> hd, it |-> Iter(hd, 0)]

\* btree::make_node, where the new node becomes head_ (parent = Null) or
\* children_.at(index) of parent: [nodes, head, it]
make_node(h, hd, parent, index, elem) ==
  LET new == NewAddr(h, parent, index)
      h1 == [n \in Allocated(h) \cup {new} |->
               IF n = new THEN node_elem(parent, index, elem)
               ELSE IF n = parent
                    THEN [h[n] EXCEPT !.children_[index + 1] = new]
                    ELSE h[n]]
      hd1 == IF parent = Null THEN new ELSE hd
  IN [nodes |-> h1, head |-> hd1, it |-> Iter(hd1, 0)]

\* the test for room with <= in place of <
has_room_le(values, size) == Len(values) <= size

\* insert's test for room in the located node
has_room(values, size) == Len(values) < size

\* btree::insert : [nodes, head, it, inserted, path]
insert(h, hd, size, elem) ==
  IF hd = Null
  THEN LET r == make_node(h, hd, Null, 0, elem)
       IN [nodes |-> r.nodes, head |-> r.head, it |-> r.it,
           inserted |-> TRUE, path |-> "empty"]
  ELSE LET lower == lower_bound(h, hd, elem)
           values == h[lower[1]].values_
       IN IF valid(h, lower) /\ values[lower[2] + 1] = elem
          THEN [nodes |-> h, head |-> hd, it |-> Iter(lower[1], lower[2]),
                inserted |-> FALSE, path |-> "match"]
          ELSE IF has_room(values, size)
          THEN LET s == Sink(Append(values, elem), 1)
                   h1 == [h EXCEPT ![lower[1]].values_ = s[1],
                                   ![lower[1]].children_ =
                                      Append(h[lower[1]].children_, Null)]
               IN [nodes |-> h1, head |-> hd,
                   it |-> Iter(lower[1], Len(s[1]) - s[2]),
                   inserted |-> TRUE, path |-> "room"]
          ELSE LET r == make_node(h, hd, lower[1], lower[2], elem)
               IN [nodes |-> r.nodes, head |-> r.head, it |-> r.it,
                   inserted |-> TRUE, path |-> "full"]

\* the copying constructor pushing the original's child pointers
node_copy_shallow(h, parent, self, original) ==
  {<<self, [h[original] EXCEPT !.parent_ = parent]>>}

\* the copying constructor keeping the original's parent_ in the children
RECURSIVE node_copy_parent(_, _, _, _)
node_copy_parent(h, parent, self, original) ==
  LET o == h[original]
      kid(i) == IF o.children_[i] = Null THEN Null
                ELSE NewAddr(h, self, i - 1)
      me == [parent_ |-> parent, index_ |-> o.index_,
             values_ |-> o.values_,
             children_ |-> [i \in 1..Len(o.children_) |-> kid(i)]]
  IN {<<self, me>>} \cup
     UNION {node_copy_parent(h, original, kid(i), o.children_[i]) :
              i \in {j \in 1..Len(o.children_) : o.children_[j] # Null}}

\* node::node(node *parent, size_t size, const node& original), constructed
\* at address self: the set of <<address, node>> of the new graph
RECURSIVE node_copy(_, _, _, _)
node_copy(h, parent, self, original) ==
  LET o == h[original]
      kid(i) == IF o.children_[i] = Null THEN Null
                ELSE NewAddr(h, self, i - 1)
      me == [parent_ |-> parent, index_ |-> o.index_,
             values_ |-> [i \in 1..Len(o.values_) |-> o.values_[i]],
             children_ |-> [i \in 1..Len(o.children_) |-> kid(i)]]
  IN {<<self, me>>} \cup
     UNION {node_copy(h, self, kid(i), o.children_[i]) :
              i \in {j \in 1..Len(o.children_) : o.children_[j] # Null}}

\* the heap h extended by the nodes of the set of pairs S
Place(h, S) ==
  [n \in Allocated(h) \cup {p[1] : p \in S} |->
     IF \E p \in S : p[1] = n THEN (CHOOSE p \in S : p[1] = n)[2] ELSE h[n]]

\* original.head_ ? new node(nullptr, maxNodeElems_, *original.head_)
\*                : nullptr                              -> [nodes, head]
clone(h, original) ==
  IF original # Null
  THEN LET self == NewAddr(h, Null, 0)
       IN [nodes |-> Place(h, node_copy(h, Null, self, original)),
           head |-> self]
  ELSE [nodes |-> h, head |-> Null]

\* btree(const btree&): [nodes, head, size] of the new object
copy_construct(h, origHead, origSize) ==
  LET c == clone(h, origHead)
  IN [nodes |-> c.nodes, head |-> c.head, size |-> origSize]

\* operator=(const btree&): [nodes, head, size] of *this
copy_assign(h, thisHead, origHead, origSize) ==
  LET c == clone(h, origHead)
  IN [nodes |-> Release(c.nodes, thisHead), head |-> c.head,
      size |-> origSize]

\* a move that copies the pointer and leaves the source holding it
move_construct_keep(origHead, origSize) ==
  [head |-> origHead, size |-> origSize, origHead |-> origHead]

\* btree(btree&&) = default: [head, size, origHead]
move_construct(origHead, origSize) ==
  [head |-> origHead, size |-> origSize, origHead |-> Null]

\* operator=(btree&&) = default; head_ = std::move(rhs.head_) is
\* head_.reset(rhs.head_.release()): [nodes, head, size, origHead]
move_assign(h, thisHead, origHead, origSize, self) ==
  IF self
  THEN [nodes |-> h, head |-> thisHead, size |-> origSize,
        origHead |-> thisHead]
  ELSE [nodes |-> Release(h, thisHead), head |-> origHead,
        size |-> origSize, origHead |-> Null]

\* the children of node n that are present, in slot order:
\* for(const auto &ptr : cur->children_) if(ptr) q.push(ptr.get());
Present(h, n) == SelectSeq(h[n].children_, LAMBDA c : c # Null)

\* the loop of operator<< with a stack in place of the queue
RECURSIVE Drain_stack(_, _)
Drain_stack(h, q) ==
  IF q = << >> THEN << >>
  ELSE <<Head(q)>> \o Drain_stack(h, Present(h, Head(q)) \o Tail(q))

\* the loop of operator<< over the queue q: the nodes in the order they are
\* popped
RECURSIVE Drain(_, _)
Drain(h, q) ==
  IF q = << >> THEN << >>
  ELSE <<Head(q)>> \o Drain(h, Tail(q) \o Present(h, Head(q)))

\* std::copy of the values_ of the nodes ns, one node after the other
RECURSIVE Emit(_, _)
Emit(h, ns) ==
  IF ns = << >> THEN << >>
  ELSE h[Head(ns)].values_ \o Emit(h, Tail(ns))

\* operator<<(os, tree): the elements written to os
output(h, hd) ==
  IF hd = Null THEN << >> ELSE Emit(h, Drain(h, <<hd>>))

\* ------------------------------------------------------------ the machine
NoRet == [it |-> Iter(Null, 0), inserted |-> FALSE]
NoOp == [name |-> "none", t |-> "a", src |-> "a", elem |-> 0, path |-> "none"]

Init ==
  /\ nodes = << >>
  /\ head = [t \in Trees |-> Null]
  /\ maxNodeElems \in [Trees -> Sizes]
  /\ ret = NoRet
  /\ op = NoOp
  /\ elems = [t \in Trees |-> {}]
  /\ copyOf = [t \in Trees |-> "none"]

\* t.insert(elem)
Insert(t, elem) ==
  LET r == insert(nodes, head[t], maxNodeElems[t], elem)
  IN /\ nodes' = r.nodes
     /\ head' = [head EXCEPT ![t] = r.head]
     /\ ret' = [it |-> r.it, inserted |-> r.inserted]
     /\ op' = [name |-> "insert", t |-> t, src |-> t, elem |-> elem,
               path |-> r.path]
     /\ elems' = [elems EXCEPT ![t] = @ \cup {elem}]
     /\ UNCHANGED <<maxNodeElems, copyOf>>

Called(name, t, src) ==
  /\ op' = [name |-> name, t |-> t, src |-> src, elem |-> 0, path |-> "none"]
  /\ ret' = NoRet

Forget(cp, t) ==
  [u \in Trees |-> IF u = t \/ cp[u] = t THEN "none" ELSE cp[u]]

\* the object t ends its life and btree t(src) takes its place
CopyConstruct(t, src) ==
  /\ t # src
  /\ LET r == copy_construct(Release(nodes, head[t]), head[src],
                              maxNodeElems[src])
     IN /\ nodes' = r.nodes
        /\ head' = [head EXCEPT ![t] = r.head]
        /\ maxNodeElems' = [maxNodeElems EXCEPT ![t] = r.size]
  /\ elems' = [elems EXCEPT ![t] = elems[src]]
  /\ copyOf' = [Forget(copyOf, t) EXCEPT ![t] = src]
  /\ Called("copy_construct", t, src)

\* t = src
CopyAssign(t, src) ==
  /\ LET r == copy_assign(nodes, head[t], head[src], maxNodeElems[src])
     IN /\ nodes' = r.nodes
        /\ head' = [head EXCEPT ![t] = r.head]
        /\ maxNodeElems' = [maxNodeElems EXCEPT ![t] = r.size]
  /\ elems' = [elems EXCEPT ![t] = elems[src]]
  /\ copyOf' = IF t = src THEN Forget(copyOf, t)
               ELSE [Forget(copyOf, t) EXCEPT ![t] = src]
  /\ Called("copy_assign", t, src)

\* the object t ends its life and btree t(std::move(src)) takes its place
MoveConstruct(t, src) ==
  /\ t # src
  /\ LET r == move_construct(head[src], maxNodeElems[src])
     IN /\ nodes' = Release(nodes, head[t])
        /\ head' = [head EXCEPT ![t] = r.head, ![src] = r.origHead]
        /\ maxNodeElems' = [maxNodeElems EXCEPT ![t] = r.size]
  /\ elems' = [elems EXCEPT ![t] = elems[src], ![src] = {}]
  /\ copyOf' = Forget(Forget(copyOf, t), src)
  /\ Called("move_construct", t, src)

\* t = std::move(src)
MoveAssign(t, src) ==
  /\ LET r == move_assign(nodes, head[t], head[src], maxNodeElems[src],
                          t = src)
     IN /\ nodes' = r.nodes
        /\ head' = [[head EXCEPT ![src] = r.origHead] EXCEPT ![t] = r.head]
        /\ maxNodeElems' = [maxNodeElems EXCEPT ![t] = r.size]
  /\ elems' = IF t = src THEN elems
              ELSE [elems EXCEPT ![t] = elems[src], ![src] = {}]
  /\ copyOf' = Forget(Forget(copyOf, t), src)
  /\ Called("move_assign", t, src)

Next ==
  \/ \E t \in Trees, elem \in ValsTwo : Insert(t, elem)
  \/ \E t \in Trees, src \in Trees : CopyConstruct(t, src)
  \/ \E t \in Trees, src \in Trees : CopyAssign(t, src)
  \/ \E t \in Trees, src \in Trees : MoveConstruct(t, src)
  \/ \E t \in Trees, src \in Trees : MoveAssign(t, src)

Spec == Init /\ [][Next]_vars

\* A client that works on the single tree object Sole, also copying and
\* moving it onto itself; the other object stays as constructed.
Sole == "a"

InitOne == Init /\ \A t \in Trees \ {Sole} : maxNodeElems[t] = 1

NextOne ==
  \/ \E elem \in Vals : Insert(Sole, elem)
  \/ CopyAssign(Sole, Sole)
  \/ MoveAssign(Sole, Sole)

SpecOne == InitOne /\ [][NextOne]_vars

\* A client that inserts the elements 5, 3, 8 and 1 into the single tree
\* object Sole in any order, any number of times, and copies it onto itself.
ScenarioVals == {1, 3, 5, 8}

NextScenario ==
  \/ \E elem \in ScenarioVals : Insert(Sole, elem)
  \/ CopyAssign(Sole, Sole)

SpecScenario == InitOne /\ [][NextScenario]_vars

\* --------------------------------------------------------- observations
Fuel == 2 * MaxVal + 2

\* the client loop  for(it = begin(); it != end(); ++it) visit(*it) :
\* the elements visited, the number of increments, and how the loop ended
RECURSIVE WalkFrom(_, _, _, _)
WalkFrom(h, hd, it, fuel) ==
  IF iter_eq(it, end(h, hd))
  THEN [seq |-> <<>>, steps |-> 0, last |-> "end"]
  ELSE IF fuel = 0
  THEN [seq |-> <<>>, steps |-> 0, last |-> "runaway"]
  ELSE LET d == Deref(h, it)
           nx == increment(h, it)
       IN IF d.status # "ok"
          THEN [seq |-> <<>>, steps |-> 0, last |-> d.status]
          ELSE IF nx.status # "ok"
          THEN [seq |-> <<d.val>>, steps |-> 0, last |-> nx.status]
          ELSE LET w == WalkFrom(h, hd, nx.it, fuel - 1)
               IN [seq |-> <<d.val>> \o w.seq, steps |-> w.steps + 1,
                   last |-> w.last]

Walk(h, hd) == WalkFrom(h, hd, begin(h, hd), Fuel)

\* the client loop  for(it = rbegin(); it != rend(); ++it) visit(*it) :
\* the elements visited, the number of reverse steps, and how the loop ended
RECURSIVE ReverseWalkFrom(_, _, _, _)
ReverseWalkFrom(h, hd, current, fuel) ==
  IF iter_eq(current, rend(h, hd))
  THEN [seq |-> <<>>, steps |-> 0, last |-> "rend"]
  ELSE IF fuel = 0
  THEN [seq |-> <<>>, steps |-> 0, last |-> "runaway"]
  ELSE LET d == reverse_deref(h, current)
           nx == reverse_increment(h, current)
       IN IF d.status # "ok"
          THEN [seq |-> <<>>, steps |-> 0, last |-> d.status]
          ELSE IF nx.status # "ok"
          THEN [seq |-> <<d.val>>, steps |-> 0, last |-> nx.status]
          ELSE LET w == ReverseWalkFrom(h, hd, nx.it, fuel - 1)
               IN [seq |-> <<d.val>> \o w.seq, steps |-> w.steps + 1,
                   last |-> w.last]

ReverseWalk(h, hd) == ReverseWalkFrom(h, hd, rbegin(h, hd), Fuel)

\* the sequence s back to front
Reversed(s) == [i \in 1..Len(s) |-> s[Len(s) + 1 - i]]

\* the elements of the set S in ascending order
RECURSIVE SortedSeq(_)
SortedSeq(S) ==
  IF S = {} THEN <<>>
  ELSE LET m == CHOOSE x \in S : \A y \in S : x <= y
       IN <<m>> \o SortedSeq(S \ {m})

\* every (node, slot) of the tree rooted at hd that holds an element
Slots(h, hd) ==
  UNION {{<<n, i>> : i \in 0..(Len(h[n].values_) - 1)} : n \in Owned(h, hd)}

NumStored(h, hd) == Cardinality(Slots(h, hd))
Stored(h, hd) == {h[p[1]].values_[p[2] + 1] : p \in Slots(h, hd)}

\* number of links from the root hd down to node n
RECURSIVE Depth(_, _, _)
Depth(h, hd, n) ==
  IF n = hd \/ h[n].parent_ = Null THEN 0 ELSE 1 + Depth(h, hd, h[n].parent_)

Queries == 0..(MaxVal + 1)

\* the slots followed from the root down to node n
RECURSIVE PathTo(_, _)
PathTo(h, n) ==
  IF h[n].parent_ = Null THEN << >>
  ELSE PathTo(h, h[n].parent_) \o <<h[n].index_>>

\* p comes before q, for two paths of the same length
LeftOf(p, q) ==
  \E k \in 1..Len(p) :
    /\ p[k] < q[k]
    /\ \A j \in 1..(k - 1) : p[j] = q[j]

\* What a build can make of a dereference: the outcome d itself when it is
\* defined, and for a read through a null cur_ a crash or any value.
DerefOutcomes(d) ==
  IF d.status # "undefined" THEN {d}
  ELSE {[status |-> "crash", val |-> 0]}
         \cup {[status |-> "ok", val |-> v] : v \in Vals}

\* What a build can make of a step r of operator++ or operator-- on the heap
\* h: r itself when it is defined, and for a read through a null cur_ a
\* crash or a cursor left anywhere.
StepOutcomes(h, r) ==
  IF r.status # "undefined" THEN {r}
  ELSE {[status |-> "crash", it |-> r.it]}
         \cup {[status |-> "ok", it |-> Iter(c, i)] :
                 c \in Allocated(h) \cup {Null}, i \in 0..MaxM}

\* the error a cursor operation reports: std::out_of_range thrown by at()
DefinedErrors == {"out_of_range"}

\* the tree below node n as <<values_, subtrees>>, an absent child and an
\* empty tree as << >>
RECURSIVE TreeOf(_, _)
TreeOf(h, n) ==
  IF n = Null THEN << >>
  ELSE <<h[n].values_,
         [i \in 1..Len(h[n].children_) |-> TreeOf(h, h[n].children_[i])]>>

\* a node holding the values v and no child
Leaf(v) == <<v, [i \in 1..(Len(v) + 1) |-> << >>]>>

\* ------------------------------------------------------------------ claims

\* C1: in every reachable state, for every tree, the walk from begin() by
\* repeated increment up to end() visits exactly the elements inserted into
\* the tree, each once, in strictly ascending order, and reaches end() after
\* exactly as many increments as there are stored elements.
C1_InOrderWalk ==
  \A t \in Trees :
    LET w == Walk(nodes, head[t])
    IN /\ w.last = "end"
       /\ w.seq = SortedSeq(elems[t])
       /\ w.steps = NumStored(nodes, head[t])
       /\ w.steps = Cardinality(elems[t])

\* a tree three levels deep holding at least three elements is walked
C1_Witness ==
  \E t \in Trees :
    /\ Cardinality(elems[t]) >= 3
    /\ \E n \in Owned(nodes, head[t]) : Depth(nodes, head[t], n) >= 2
    /\ \E n \in Owned(nodes, head[t]) : Len(nodes[n].values_) >= 1
    /\ Walk(nodes, head[t]).seq = SortedSeq(elems[t])
    /\ Walk(nodes, head[t]).steps >= 3

\* C2: after every insert(x) the returned cursor is positioned at x, in all
\* four cases; when the located node was full the cursor is (new child, 0).
C2_InsertCursorAtElem ==
  op.name = "insert" =>
    /\ Deref(nodes, ret.it) = [status |-> "ok", val |-> op.elem]
    /\ op.path = "full" =>
         /\ ret.it.index_ = 0
         /\ ret.it.cur_ # head[op.t]
         /\ nodes[ret.it.cur_].values_ = <<op.elem>>

\* C3: in every reachable state find(x) returns a cursor that dereferences
\* to x when x has been inserted into the tree, and a cursor equal to end()
\* when it has not.
C3_Find ==
  \A t \in Trees : \A x \in Queries :
    LET it == find(nodes, head[t], x)
    IN IF x \in elems[t]
       THEN /\ Deref(nodes, it) = [status |-> "ok", val |-> x]
            /\ ~iter_eq(it, end(nodes, head[t]))
       ELSE iter_eq(it, end(nodes, head[t]))

\* find hits an element stored below the root and misses in a non-empty tree
C3_Witness ==
  \E t \in Trees : \E x \in elems[t] : \E y \in Queries \ elems[t] :
    /\ find(nodes, head[t], x).cur_ # head[t]
    /\ Deref(nodes, find(nodes, head[t], x)).val = x
    /\ head[t] # Null
    /\ find(nodes, head[t], y) = end(nodes, head[t])

\* C4: an insert of an element that is already stored returns
\* inserted = false and changes nothing: no node is created, no node's
\* values or children change, and the in-order sequence and its length stay.
C4_DuplicateInsert ==
  [][\A t \in Trees :
       (op'.name = "insert" /\ op'.t = t
        /\ op'.elem \in Stored(nodes, head[t]))
       => /\ ret'.inserted = FALSE
          /\ nodes' = nodes
          /\ head' = head
          /\ Walk(nodes', head'[t]) = Walk(nodes, head[t])
          /\ NumStored(nodes', head'[t]) = NumStored(nodes, head[t])]_vars

\* a duplicate was offered and found below the root
C4_Witness ==
  /\ op.name = "insert"
  /\ op.path = "match"
  /\ ret.inserted = FALSE
  /\ ret.it.cur_ # head[op.t]
  /\ NumStored(nodes, head[op.t]) >= 2

\* C5: an insert of an element that is not stored returns inserted = true
\* and the number of stored elements grows by exactly one, whatever the
\* tree, also when every node on the descent path holds M elements.
C5_InsertSucceeds ==
  [][\A t \in Trees :
       (op'.name = "insert" /\ op'.t = t
        /\ op'.elem \notin Stored(nodes, head[t]))
       => /\ ret'.inserted = TRUE
          /\ NumStored(nodes', head'[t]) = NumStored(nodes, head[t]) + 1
          /\ Stored(nodes', head'[t]) =
               Stored(nodes, head[t]) \cup {op'.elem}]_vars

\* an element went below a full root and a full child of it
C5_Witness ==
  /\ op.name = "insert"
  /\ op.path = "full"
  /\ ret.inserted = TRUE
  /\ \E n \in Owned(nodes, head[op.t]) :
       /\ nodes[n].values_ = <<op.elem>>
       /\ Depth(nodes, head[op.t], n) >= 2
       /\ Len(nodes[nodes[n].parent_].values_) = maxNodeElems[op.t]
       /\ Len(nodes[head[op.t]].values_) = maxNodeElems[op.t]

\* corresponding nodes of two graphs hold the same values, the same pattern
\* of present and absent children and the same index_
RECURSIVE SameShape(_, _, _)
SameShape(h, x, y) ==
  IF x = Null \/ y = Null THEN x = y
  ELSE /\ h[x].values_ = h[y].values_
       /\ h[x].index_ = h[y].index_
       /\ Len(h[x].children_) = Len(h[y].children_)
       /\ \A i \in 1..Len(h[x].children_) :
            SameShape(h, h[x].children_[i], h[y].children_[i])

\* the nodes of the tree rooted at hd, with their contents
Graph(h, hd) == [n \in Owned(h, hd) |-> h[n]]

IsCopy(t, u) == t # u /\ (copyOf[t] = u \/ copyOf[u] = t)

\* C6: once one tree is a copy of another (by copy construction or copy
\* assignment) the two share no node, and an insert into either of them
\* leaves the other's nodes and in-order sequence as they were.
C6_CopyIndependent ==
  [][\A t \in Trees : \A u \in Trees :
       /\ (t # u /\ (copyOf'[t] = u \/ copyOf'[u] = t))
          => Owned(nodes', head'[t]) \cap Owned(nodes', head'[u]) = {}
       /\ (IsCopy(t, u) /\ op'.name = "insert" /\ op'.t = t)
          => /\ head'[u] = head[u]
             /\ Graph(nodes', head'[u]) = Graph(nodes, head[u])
             /\ Walk(nodes', head'[u]) = Walk(nodes, head[u])]_vars

\* an element was added to one of two copies, both two levels deep
C6_Witness ==
  /\ op.name = "insert"
  /\ ret.inserted = TRUE
  /\ \E u \in Trees :
       /\ IsCopy(op.t, u)
       /\ Cardinality(Owned(nodes, head[u])) >= 2
       /\ Cardinality(Owned(nodes, head[op.t])) >= 2
       /\ elems[u] # elems[op.t]
       /\ op.elem \notin elems[u]

\* C7: right after a copy construction or copy assignment the destination
\* has the source's maxNodeElems and node structure, in nodes of its own,
\* and every parent_ in the destination is a node of the destination.
C7_CopyStructure ==
  op.name \in {"copy_construct", "copy_assign"} =>
    /\ maxNodeElems[op.t] = maxNodeElems[op.src]
    /\ SameShape(nodes, head[op.src], head[op.t])
    /\ head[op.t] = Null \/ nodes[head[op.t]].parent_ = Null
    /\ \A n \in Owned(nodes, head[op.t]) \ {head[op.t]} :
         nodes[n].parent_ \in Owned(nodes, head[op.t])
    /\ op.t # op.src =>
         /\ Owned(nodes, head[op.t]) \cap Owned(nodes, head[op.src]) = {}
         /\ \A n \in Owned(nodes, head[op.t]) :
              nodes[n].parent_ \notin Owned(nodes, head[op.src])

\* a tree three levels deep has just been copied into another object
C7_Witness ==
  /\ op.name \in {"copy_construct", "copy_assign"}
  /\ op.t # op.src
  /\ \E n \in Owned(nodes, head[op.t]) : Depth(nodes, head[op.t], n) >= 2
  /\ \E n \in Owned(nodes, head[op.src]) : Depth(nodes, head[op.src], n) >= 2

Moves == {"move_construct", "move_assign"}
Copies == {"copy_construct", "copy_assign"}

\* the step moved src into t: t now yields what src yielded, and src is an
\* empty tree that behaves like a newly constructed one
Moved(t, src) ==
  /\ Walk(nodes', head'[t]) = Walk(nodes, head[src])
  /\ maxNodeElems'[t] = maxNodeElems[src]
  /\ head'[src] = Null
  /\ iter_eq(begin(nodes', head'[src]), end(nodes', head'[src]))
  /\ \A x \in Queries :
       iter_eq(find(nodes', head'[src], x), end(nodes', head'[src]))
  /\ \A x \in Vals :
       LET r == insert(nodes', head'[src], maxNodeElems'[src], x)
       IN /\ r.inserted = TRUE
          /\ Walk(r.nodes, r.head).seq = <<x>>
          /\ Graph(r.nodes, head'[t]) = Graph(nodes', head'[t])

\* C8 as claimed: after every move construction or move assignment the
\* destination yields the source's former sequence and the source is a
\* valid empty tree.
C8_MoveAsClaimed ==
  [][op'.name \in Moves => Moved(op'.t, op'.src)]_vars

\* C8 as amended: after a move construction, or a move assignment from
\* another tree object, the destination yields the source's former sequence
\* and the source is a valid empty tree; a move assignment of a tree to
\* itself leaves the tree as it was.
C8_Move ==
  [][op'.name \in Moves =>
       IF op'.t # op'.src
       THEN Moved(op'.t, op'.src)
       ELSE /\ head' = head
            /\ nodes' = nodes
            /\ maxNodeElems' = maxNodeElems]_vars

\* a tree two levels deep has just been moved into another object
C8_Witness ==
  /\ op.name \in Moves
  /\ op.t # op.src
  /\ head[op.src] = Null
  /\ Cardinality(Owned(nodes, head[op.t])) >= 2
  /\ Cardinality(elems[op.t]) >= 2

\* C9: in every reachable state every node of every tree has one more
\* child link than values, and between 1 and maxNodeElems values.
C9_NodeSizes ==
  \A t \in Trees : \A n \in Owned(nodes, head[t]) :
    /\ Len(nodes[n].children_) = Len(nodes[n].values_) + 1
    /\ 1 <= Len(nodes[n].values_)
    /\ Len(nodes[n].values_) <= maxNodeElems[t]

\* a copied or moved tree has a full node of two values with a child
C9_Witness ==
  /\ op.name \in Moves \cup Copies
  /\ \E n \in Owned(nodes, head[op.t]) :
       /\ Len(nodes[n].values_) = 2
       /\ maxNodeElems[op.t] = 2
       /\ \E i \in 1..3 : nodes[n].children_[i] # Null

\* C10: in every reachable state each node's values are strictly ascending,
\* no element is stored in two slots of a tree, and every element below
\* children_[i] lies strictly between values_[i-1] and values_[i].
C10_Ordered ==
  \A t \in Trees :
    /\ NumStored(nodes, head[t]) = Cardinality(Stored(nodes, head[t]))
    /\ \A n \in Owned(nodes, head[t]) :
         LET v == nodes[n].values_
             c == nodes[n].children_
         IN /\ \A i \in 1..(Len(v) - 1) : v[i] < v[i + 1]
            /\ \A i \in 1..Len(c) : \A x \in Stored(nodes, c[i]) :
                 /\ i > 1 => v[i - 1] < x
                 /\ i <= Len(v) => x < v[i]

\* a node holds two values with a subtree between them
C10_Witness ==
  \E t \in Trees : \E n \in Owned(nodes, head[t]) :
    /\ Len(nodes[n].values_) = 2
    /\ nodes[n].children_[2] # Null
    /\ Stored(nodes, nodes[n].children_[2]) # {}

\* C11: in every reachable state every non-root node n of every tree is
\* children_[n.index_] of its parent_, and the root's parent_ is null.
C11_ParentLinks ==
  \A t \in Trees :
    /\ head[t] # Null => nodes[head[t]].parent_ = Null
    /\ \A n \in Owned(nodes, head[t]) :
         \A i \in 1..Len(nodes[n].children_) :
           LET c == nodes[n].children_[i]
           IN c # Null => /\ nodes[c].parent_ = n
                          /\ nodes[c].index_ = i - 1
    /\ \A n \in Owned(nodes, head[t]) \ {head[t]} :
         LET p == nodes[n].parent_
         IN /\ p \in Owned(nodes, head[t])
            /\ nodes[n].index_ < Len(nodes[p].children_)
            /\ nodes[p].children_[nodes[n].index_ + 1] = n

\* a copied tree holds a node at a slot other than 0 below a node that
\* took a value after it was created
C11_Witness ==
  /\ op.name \in Copies
  /\ \E n \in Owned(nodes, head[op.t]) \ {head[op.t]} :
       /\ nodes[n].index_ >= 1
       /\ Len(nodes[nodes[n].parent_].values_) >= 2

\* C12: in every reachable state, for every tree, the walk from rbegin() to
\* rend() visits exactly the stored elements, each once, in strictly
\* descending order, and ends when the underlying cursor equals begin(),
\* after as many reverse steps as there are stored elements.
C12_ReverseWalk ==
  \A t \in Trees :
    LET w == ReverseWalk(nodes, head[t])
    IN /\ w.last = "rend"
       /\ w.seq = Reversed(SortedSeq(elems[t]))
       /\ w.steps = Cardinality(elems[t])
       /\ Stored(nodes, head[t]) = elems[t]
       /\ NumStored(nodes, head[t]) = Cardinality(elems[t])

\* a tree of three levels whose reverse walk has to climb from a node at
\* slot 0 through more than one parent and to descend to a rightmost node
C12_Witness ==
  /\ op.name = "insert"
  /\ Cardinality(elems[Sole]) >= 4
  /\ \E n \in Owned(nodes, head[Sole]) :
       /\ Depth(nodes, head[Sole], n) >= 2
       /\ nodes[n].index_ = 0
       /\ nodes[nodes[n].parent_].index_ = 0
  /\ \E n \in Owned(nodes, head[Sole]) :
       /\ Depth(nodes, head[Sole], n) >= 1
       /\ nodes[n].index_ >= 1

\* C13: in every reachable state, for every tree with no root (a freshly
\* constructed one included), begin(), end(), cbegin() and cend() are
\* null-node cursors that compare equal to each other, the in-order walk and
\* the reverse walk are empty, and find(x) and the read-only find(x) equal
\* end() for every x.
C13_EmptyTree ==
  \A t \in Trees :
    head[t] = Null =>
      LET h == nodes
          b == begin(h, head[t])
          e == end(h, head[t])
          cb == cbegin(h, head[t])
          ce == cend(h, head[t])
      IN /\ b.cur_ = Null /\ e.cur_ = Null /\ cb.cur_ = Null /\ ce.cur_ = Null
         /\ iter_eq(b, e) /\ iter_eq(e, b)
         /\ iter_eq(cb, ce) /\ iter_eq(b, ce) /\ iter_eq(cb, e)
         /\ Walk(h, head[t]) = [seq |-> <<>>, steps |-> 0, last |-> "end"]
         /\ ReverseWalk(h, head[t]).seq = <<>>
         /\ \A x \in Queries :
              /\ iter_eq(find(h, head[t], x), e)
              /\ iter_eq(find_const(h, head[t], x), ce)
              /\ iter_eq(find(h, head[t], x), ce)

\* a tree as constructed, never inserted into, beside a tree that holds
\* nodes
C13_Witness ==
  \E t \in Trees :
    /\ head[t] = Null
    /\ elems[t] = {}
    /\ Allocated(nodes) # {}
    /\ op.name = "insert"

\* the inserts of the scenario of C14 and the tree it expects after each
Scenario == <<5, 3, 8, 1>>
ScenarioTree ==
  << << >>,
     Leaf(<<5>>),
     Leaf(<<3, 5>>),
     <<<<3, 5>>, << << >>, << >>, Leaf(<<8>>) >> >>,
     <<<<3, 5>>, << Leaf(<<1>>), << >>, Leaf(<<8>>) >> >> >>

\* C14: with maxNodeElems_ = 2, each insert of the sequence 5, 3, 8, 1,
\* made on the tree the inserts before it have built from the empty tree,
\* builds the next tree of the scenario: root [5], root [3, 5], then a node
\* holding 8 at children_[2], then a node holding 1 at children_[0] with
\* children_[1] absent; the in-order walk of the last tree is 1, 3, 5, 8.
C14_Scenario ==
  [][\A k \in 1..Len(Scenario) :
       ( /\ maxNodeElems[Sole] = 2
         /\ TreeOf(nodes, head[Sole]) = ScenarioTree[k]
         /\ op'.name = "insert" /\ op'.elem = Scenario[k] )
       => /\ TreeOf(nodes', head'[Sole]) = ScenarioTree[k + 1]
          /\ ret'.inserted
          /\ k = Len(Scenario) =>
               Walk(nodes', head'[Sole]) =
                 [seq |-> <<1, 3, 5, 8>>, steps |-> 4, last |-> "end"]]_vars

\* the last tree of the scenario, just after 1 was inserted
C14_Witness ==
  /\ maxNodeElems[Sole] = 2
  /\ op.name = "insert" /\ op.elem = 1 /\ op.path = "full"
  /\ TreeOf(nodes, head[Sole]) = ScenarioTree[5]
  /\ nodes[head[Sole]].values_ = <<3, 5>>
  /\ nodes[head[Sole]].children_[2] = Null
  /\ nodes[nodes[head[Sole]].children_[1]].values_ = <<1>>
  /\ nodes[nodes[head[Sole]].children_[3]].values_ = <<8>>

\* C15 (as claimed): in every reachable state, for every tree, empty or not,
\* dereferencing end() and incrementing end() both end in the same defined
\* error and leave the cursor where it was; neither reads through a null
\* node.
C15_EndIsDefinedError ==
  \A t \in Trees :
    LET e == end(nodes, head[t])
    IN /\ \A d \in DerefOutcomes(Deref(nodes, e)) : d.status \in DefinedErrors
       /\ \A r \in StepOutcomes(nodes, increment(nodes, e)) :
            /\ r.status \in DefinedErrors
            /\ r.it = e

\* C16 (as claimed): in every reachable state, for every non-empty tree,
\* decrementing begin() ends in a defined error: the upward loop does not
\* read index_ through the root's null parent_.
C16_BeginDecrementIsDefinedError ==
  \A t \in Trees :
    head[t] # Null =>
      \A r \in StepOutcomes(nodes, decrement(nodes, begin(nodes, head[t]))) :
        r.status \in DefinedErrors

\* C17: in every reachable state the display enumeration of the tree visits
\* the root first and every node once, a node of a lesser depth before a
\* node of a greater depth and, within one depth, the nodes from left to
\* right; it emits the values_ of each visited node together and in slot
\* order, so every stored element exactly once; an empty tree emits nothing,
\* and the tree built with maxNodeElems_ = 2 from 5, 3, 8, 1 emits 3, 5, 1, 8.
C17_Display ==
  LET h == nodes
      hd == head[Sole]
      out == output(h, hd)
      ns == IF hd = Null THEN << >> ELSE Drain(h, <<hd>>)
  IN /\ hd = Null => out = << >>
     /\ hd # Null => ns[1] = hd
     /\ Range(ns) = Owned(h, hd)
     /\ Len(ns) = Cardinality(Owned(h, hd))
     /\ \A i, j \in 1..Len(ns) :
          i < j =>
            LET di == Depth(h, hd, ns[i])
                dj == Depth(h, hd, ns[j])
            IN \/ di < dj
               \/ di = dj /\ LeftOf(PathTo(h, ns[i]), PathTo(h, ns[j]))
     /\ out = Emit(h, ns)
     /\ Len(out) = Cardinality(elems[Sole])
     /\ Range(out) = elems[Sole]
     /\ (maxNodeElems[Sole] = 2 /\ TreeOf(h, hd) = ScenarioTree[5])
          => out = <<3, 5, 1, 8>>

\* a tree where a node two levels below the root lies to the left of a node
\* one level below the root
C17_Witness ==
  \E n, m \in Owned(nodes, head[Sole]) :
    /\ Depth(nodes, head[Sole], n) = 2
    /\ Depth(nodes, head[Sole], m) = 1
    /\ nodes[nodes[n].parent_].index_ < nodes[m].index_

\* C18: for every cursor (n, i) at an element of the tree, a step
\* t.insert(y) that leaves the number of values_ of n as it was (y is
\* already stored, or goes into another node, or into a new node) leaves n a
\* node of the tree, and the cursor (n, i) dereferences after the step to
\* the element it dereferenced to before.
C18_CursorsStay ==
  [][op'.name = "insert" =>
       \A p \in Slots(nodes, head[Sole]) :
         LET n == p[1]
             it == Iter(p[1], p[2])
             added == /\ n \in Allocated(nodes')
                      /\ Len(nodes'[n].values_) # Len(nodes[n].values_)
         IN ~added =>
              /\ n \in Owned(nodes', head'[Sole])
              /\ Deref(nodes', it) = Deref(nodes, it)
              /\ Deref(nodes', it).status = "ok"]_vars

\* an insert into a new node below a tree that already holds several nodes
\* and a node with more than one element
C18_Witness ==
  /\ op.name = "insert" /\ op.path = "full"
  /\ Cardinality(Owned(nodes, head[Sole])) >= 3
  /\ \E n \in Owned(nodes, head[Sole]) : Len(nodes[n].values_) >= 2

\* C19: in every reachable state, for every non-empty tree and every query
\* element x, lower_bound from the root returns a node of the tree and a
\* slot between 0 and the number of its values_ such that the value at the
\* slot is x or the child at the slot is absent; when x is stored in the
\* tree the value at the slot is x, and otherwise it is not.
C19_LowerBound ==
  \A t \in Trees :
    head[t] # Null =>
      \A x \in Queries :
        LET lower == lower_bound(nodes, head[t], x)
            node == lower[1]
            slot == lower[2]
            match == /\ slot < Len(nodes[node].values_)
                     /\ nodes[node].values_[slot + 1] = x
        IN /\ node \in Owned(nodes, head[t])
           /\ 0 <= slot /\ slot <= Len(nodes[node].values_)
           /\ slot < Len(nodes[node].children_)
           /\ match \/ nodes[node].children_[slot + 1] = Null
           /\ match <=> x \in elems[t]

\* a stored element with a child at its own slot, an absent element that
\* sends the descent two levels down, and a query greater than every value
\* of the node the descent ends in
C19_Witness ==
  /\ op.name = "insert"
  /\ \E p \in Slots(nodes, head[Sole]) :
       nodes[p[1]].children_[p[2] + 1] # Null
  /\ \E x \in Queries \ elems[Sole] :
       LET lower == lower_bound(nodes, head[Sole], x)
       IN /\ Depth(nodes, head[Sole], lower[1]) >= 2
          /\ lower[2] = Len(nodes[lower[1]].values_)

\* C20: in every reachable state, for every cursor at a stored element e
\* (the cursor find(e) returns), one increment succeeds and yields the
\* cursor at the least stored element greater than e, or, when e is the
\* greatest element, the cursor (root, number of values_ of the root), which
\* is end().
C20_Successor ==
  \A t \in Trees :
    \A p \in Slots(nodes, head[t]) :
      LET h == nodes
          it == Iter(p[1], p[2])
          e == h[p[1]].values_[p[2] + 1]
          greater == {x \in elems[t] : x > e}
          r == increment(h, it)
      IN /\ find(h, head[t], e) = it
         /\ r.status = "ok"
         /\ greater = {} =>
              /\ r.it = Iter(head[t], Len(h[head[t]].values_))
              /\ iter_eq(r.it, end(h, head[t]))
         /\ greater # {} =>
              /\ <<r.it.cur_, r.it.index_>> \in Slots(h, head[t])
              /\ Deref(h, r.it) =
                   [status |-> "ok",
                    val |-> CHOOSE x \in greater : \A y \in greater : x <= y]

\* the greatest element lies two levels below the root, and some element
\* has a right child whose leftmost node lies below it
C20_Witness ==
  /\ op.name = "insert"
  /\ \E p \in Slots(nodes, head[Sole]) :
       /\ \A x \in elems[Sole] : x <= nodes[p[1]].values_[p[2] + 1]
       /\ Depth(nodes, head[Sole], p[1]) >= 2
  /\ \E p \in Slots(nodes, head[Sole]) :
       LET c == nodes[p[1]].children_[p[2] + 2]
       IN c # Null /\ Leftmost(nodes, c) # c

\* C21: in every reachable state, for every cursor at a stored element e
\* that is not the least one, one decrement succeeds and yields the cursor
\* at the greatest stored element less than e; and one decrement of end() of
\* a non-empty tree yields the cursor at the greatest stored element.
C21_Predecessor ==
  \A t \in Trees :
    LET h == nodes
        Greatest(S) == CHOOSE x \in S : \A y \in S : y <= x
    IN /\ \A p \in Slots(h, head[t]) :
            LET it == Iter(p[1], p[2])
                e == h[p[1]].values_[p[2] + 1]
                less == {x \in elems[t] : x < e}
                r == decrement(h, it)
            IN less # {} =>
                 /\ r.status = "ok"
                 /\ <<r.it.cur_, r.it.index_>> \in Slots(h, head[t])
                 /\ Deref(h, r.it) = [status |-> "ok", val |-> Greatest(less)]
       /\ head[t] # Null =>
            LET r == decrement(h, end(h, head[t]))
            IN /\ r.status = "ok"
               /\ <<r.it.cur_, r.it.index_>> \in Slots(h, head[t])
               /\ Deref(h, r.it) = [status |-> "ok", val |-> Greatest(elems[t])]

\* some element has a left child whose rightmost node lies below it, and
\* some node two levels down at slot 0 has no left child under its first
\* element, which is not the least element
C21_Witness ==
  /\ op.name = "insert"
  /\ \E p \in Slots(nodes, head[Sole]) :
       LET c == nodes[p[1]].children_[p[2] + 1]
       IN c # Null /\ Rightmost(nodes, c) # c
  /\ \E n \in Owned(nodes, head[Sole]) :
       /\ Depth(nodes, head[Sole], n) >= 2
       /\ nodes[n].index_ = 0
       /\ nodes[n].children_[1] = Null
       /\ \E x \in elems[Sole] : x < nodes[n].values_[1]

\* number of levels of the tree rooted at hd
Height(h, hd) ==
  IF hd = Null THEN 0
  ELSE LET ds == {Depth(h, hd, n) : n \in Owned(h, hd)}
       IN 1 + CHOOSE d \in ds : \A e \in ds : e <= d

\* What C22 says of a step t.insert(y) on the tree Sole: a node is created
\* exactly when the tree is empty or the located node holds maxNodeElems_
\* values; with room, y joins the values_ of the located node and no other
\* node, the set of nodes and the height stay; with a full located node
\* every node stays as it was, but for the null children_[slot] of the
\* located node, which becomes a new node holding y alone and two null
\* children.
InsertEffect ==
  LET h == nodes
      h2 == nodes'
      hd == head[Sole]
      hd2 == head'[Sole]
      M == maxNodeElems[Sole]
      y == op'.elem
      created == Allocated(h2) \ Allocated(h)
      IsNew(c) == /\ h2[c].values_ = <<y>>
                  /\ h2[c].children_ = <<Null, Null>>
  IN IF hd = Null
     THEN created = {hd2} /\ IsNew(hd2)
     ELSE LET lower == lower_bound(h, hd, y)
              n == lower[1]
              slot == lower[2]
          IN /\ created # {} <=> Len(h[n].values_) = M
             /\ hd2 = hd
             /\ Allocated(h) \subseteq Allocated(h2)
             /\ \A m \in Allocated(h) \ {n} : h2[m] = h[m]
             /\ Len(h[n].values_) < M =>
                  /\ Range(h2[n].values_) = Range(h[n].values_) \cup {y}
                  /\ Len(h2[n].values_) = Len(h[n].values_) + 1
                  /\ Len(h2[n].children_) = Len(h2[n].values_) + 1
                  /\ Owned(h2, hd2) = Owned(h, hd)
                  /\ Height(h2, hd2) = Height(h, hd)
             /\ Len(h[n].values_) = M =>
                  /\ h[n].children_[slot + 1] = Null
                  /\ \E c \in created :
                       /\ created = {c}
                       /\ IsNew(c)
                       /\ h2[n] = [h[n] EXCEPT !.children_[slot + 1] = c]
                       /\ Owned(h2, hd2) = Owned(h, hd) \cup {c}

\* C22 (as claimed): every step t.insert(y) has the effect C22 describes.
C22_InsertAsClaimed ==
  [][op'.name = "insert" => InsertEffect]_vars

\* C22 (amended): every step t.insert(y) with y not yet stored in the tree
\* has the effect C22 describes; a step t.insert(y) with y already stored
\* creates no node and changes none, whatever the located node holds.
C22_Insert ==
  [][op'.name = "insert" =>
       IF op'.elem \in elems[Sole]
       THEN nodes' = nodes /\ head' = head
       ELSE InsertEffect]_vars

\* an element went into a node below the root that had room, in a tree
\* where another insert had found a node full
C22_Witness ==
  /\ op.name = "insert" /\ op.path = "room"
  /\ ret.it.cur_ # head[Sole]
  /\ Cardinality(Owned(nodes, head[Sole])) >= 3

\* C23: in every reachable state, in every tree, a node that has a child
\* holds exactly maxNodeElems_ values: every node with fewer values has only
\* null children_, and every node has one more children_ than values_.
C23_ChildrenOnlyWhenFull ==
  \A t \in Trees :
    \A n \in Owned(nodes, head[t]) :
      /\ Len(nodes[n].children_) = Len(nodes[n].values_) + 1
      /\ (\E i \in 1..Len(nodes[n].children_) : nodes[n].children_[i] # Null)
           => Len(nodes[n].values_) = maxNodeElems[t]
      /\ Len(nodes[n].values_) < maxNodeElems[t]
           => \A i \in 1..Len(nodes[n].children_) : nodes[n].children_[i] = Null

\* a tree with a full root that has a child, and below it a node with room
C23_Witness ==
  \E t \in Trees :
    /\ maxNodeElems[t] >= 2
    /\ \E n \in Owned(nodes, head[t]) \ {head[t]} :
         /\ Len(nodes[n].values_) < maxNodeElems[t]
         /\ Len(nodes[nodes[n].parent_].values_) = maxNodeElems[t]

\* C24: in every reachable state, for every tree, the root is present
\* exactly when an element is stored, no node has empty values_, begin()
\* equals end() (and cbegin() equals cend()) exactly when the tree is empty,
\* and no cursor at a stored element equals end().
C24_RootAndEnd ==
  \A t \in Trees :
    LET h == nodes
        hd == head[t]
    IN /\ hd # Null <=> elems[t] # {}
       /\ Stored(h, hd) = elems[t]
       /\ \A n \in Owned(h, hd) : Len(h[n].values_) >= 1
       /\ iter_eq(begin(h, hd), end(h, hd)) <=> elems[t] = {}
       /\ iter_eq(cbegin(h, hd), cend(h, hd)) <=> elems[t] = {}
       /\ \A p \in Slots(h, hd) :
            /\ ~iter_eq(Iter(p[1], p[2]), end(h, hd))
            /\ ~iter_eq(end(h, hd), Iter(p[1], p[2]))

\* a tree emptied by a move beside a tree of several nodes whose begin() and
\* end() both point into the root
C24_Witness ==
  /\ op.name \in Moves
  /\ op.t # op.src
  /\ head[op.src] = Null
  /\ head[op.t] # Null
  /\ begin(nodes, head[op.t]).cur_ = head[op.t]
  /\ Cardinality(Owned(nodes, head[op.t])) >= 2

\* C25: in every reachable state, for every tree, decrementing the result
\* of incrementing the cursor at a stored element gives that cursor again,
\* and incrementing the result of decrementing a cursor at a stored element
\* or end(), other than begin(), gives that cursor again.
C25_InverseSteps ==
  \A t \in Trees :
    LET h == nodes
        hd == head[t]
        AtElems == {Iter(p[1], p[2]) : p \in Slots(h, hd)}
    IN /\ \A c \in AtElems :
            LET f == increment(h, c)
                b == decrement(h, f.it)
            IN /\ f.status = "ok" /\ b.status = "ok"
               /\ iter_eq(b.it, c)
               /\ b.it = c
       /\ \A c \in AtElems \cup {end(h, hd)} :
            ~iter_eq(c, begin(h, hd)) =>
              LET b == decrement(h, c)
                  f == increment(h, b.it)
              IN /\ b.status = "ok" /\ f.status = "ok"
                 /\ iter_eq(f.it, c)
                 /\ f.it = c

\* begin() lies below the root, and some element's increment climbs two
\* levels to another element
C25_Witness ==
  /\ op.name = "insert"
  /\ begin(nodes, head[Sole]).cur_ # head[Sole]
  /\ \E p \in Slots(nodes, head[Sole]) :
       LET f == increment(nodes, Iter(p[1], p[2]))
       IN /\ f.status = "ok"
          /\ <<f.it.cur_, f.it.index_>> \in Slots(nodes, head[Sole])
          /\ Depth(nodes, head[Sole], p[1])
               >= Depth(nodes, head[Sole], f.it.cur_) + 2

====
